---- MODULE Spec2Model ----
(***************************************************************************)
(* create_downloadable_backup.py as a state machine over one filesystem.   *)
(*                                                                         *)
(* A path is a tuple of names relative to the working directory, a node is *)
(* a record [kind, data], and fs maps every path of a finite universe to   *)
(* its node.  SourceRoot and OutputRoot live in the same fs, so that what  *)
(* a copy reads and what it writes is decided by the paths the code        *)
(* computes and not by the shape of the model.                             *)
(***************************************************************************)
EXTENDS Integers, Sequences, FiniteSets, TLC

VARIABLES
    fs,          \* the filesystem: [AllPaths -> Node]
    pc,          \* the step create_downloadable_backup is at
    i,           \* index into essential_files of the `for file` loop
    j,           \* index into dirs_to_copy of the `for dir_name` loop
    stdout,      \* the lines printed by the current run, in order
    total_size,  \* the local total_size (-1 before line 103)
    result,      \* the value returned by the current run (<<>> before line 114)
    err,         \* the exception that ended the run at pc ("" when none)
    run,         \* which invocation of the script this is
    fs0,         \* history: fs when the current run started
    fs1          \* history: fs when the first run returned

vars == <<fs, pc, i, j, stdout, total_size, result, err, run, fs0, fs1>>

----------------------------------------------------------------------------
(* Bounds of the model *)

\* at most this many entries exist below SourceRoot before the first run
MaxSrcNodes == 3
\* at most this many entries exist below OutputRoot before the first run
MaxOutNodes == 2
\* the script is invoked at most this many times in succession
MaxRuns == 2
\* the same bounds on the entries below SourceRoot and OutputRoot for the
\* runs that are followed to their end under fairness
FairSrcNodes == 2
FairOutNodes == 1

----------------------------------------------------------------------------
(* Program constants *)

backup_dir == <<"backup_20250729_014531">>
output_dir == <<"downloadable_backup">>

essential_files ==
    << "package.json", "package-lock.json", "VPS_MIGRATION_STEPS.md",
       "deploy_to_vps.sh", ".env.example", "nginx.conf",
       "members_data.csv", "users_data.csv" >>

\* "client/src" is the two-component path os.path.join makes of it
dirs_to_copy == << <<"server">>, <<"shared">>, <<"client", "src">> >>

SUMMARY_NAME == "BACKUP_SUMMARY.json"
README_NAME == "README.txt"

\* os.path.join of a directory path and a relative path
join(dir, rel) == dir \o rel

\* os.path.basename
basename(p) == p[Len(p)]

\* os.path.dirname
dirname(p) == SubSeq(p, 1, Len(p) - 1)

----------------------------------------------------------------------------
(* File contents and their sizes *)

NoData == [src |-> "none", id |-> 0]
Blob(b) == [src |-> "blob", id |-> b]

\* the size in bytes of each content a file may have before the first run
BlobSizes == <<7, 10, 261042, 52429, 100, 1048576, 0>>

\* datetime.now(), in microseconds after some whole second
Clock == {0, 250000}

\* len(datetime.isoformat()): the fraction is left out when microsecond = 0
isoformat_len(now) == IF now % 1000000 = 0 THEN 19 ELSE 26

\* len(json.dumps(summary, indent=2)) - len(summary["backup_date"])
SUMMARY_FIXED_LEN == 352
\* len(instructions.encode("utf-8"))
README_LEN == 731

summary(now) == [src |-> "summary", id |-> now]
instructions == [src |-> "readme", id |-> 0]

NoNode == [kind |-> "none", data |-> NoData]
DirNode == [kind |-> "dir", data |-> NoData]
FileNode(d) == [kind |-> "file", data |-> d]

\* os.path.getsize of a regular file
getsize(node) ==
    CASE node.data.src = "blob" -> BlobSizes[node.data.id]
      [] node.data.src = "summary" -> SUMMARY_FIXED_LEN + isoformat_len(node.data.id)
      [] node.data.src = "readme" -> README_LEN
      [] OTHER -> 0

----------------------------------------------------------------------------
(* The path universe *)

EssentialNames == {essential_files[k] : k \in 1..Len(essential_files)}

\* the relative paths the model places entries at, besides the essential
\* names; "a" stands for any entry name of a copied directory, "uploads" and
\* "notes.txt" for the entries the script has no list entry for
OtherRel ==
    << <<"server">>, <<"server", "a">>, <<"server", "a", "a">>,
       <<"shared">>,
       <<"client">>, <<"client", "src">>, <<"client", "src", "a">>,
       <<"uploads">>, <<"notes.txt">>, <<SUMMARY_NAME>>, <<README_NAME>> >>

RelSeq == [k \in 1..Len(essential_files) |-> <<essential_files[k]>>] \o OtherRel

\* every path of the universe, in the order a directory is listed in
PathSeq ==
    <<backup_dir, output_dir>>
      \o [k \in 1..Len(RelSeq) |-> join(backup_dir, RelSeq[k])]
      \o [k \in 1..Len(RelSeq) |-> join(output_dir, RelSeq[k])]

AllPaths == {PathSeq[k] : k \in 1..Len(PathSeq)}
SrcPaths == {p \in AllPaths : p[1] = backup_dir[1]}
OutPaths == {p \in AllPaths : p[1] = output_dir[1]}

IsPrefix(p, q) == Len(p) <= Len(q) /\ SubSeq(q, 1, Len(p)) = p
Under(root, p) == IsPrefix(root, p) /\ p # root

exists(f, p) == f[p].kind # "none"
isdir(f, p) == f[p].kind = "dir"
isfile(f, p) == f[p].kind = "file"

\* the paths of the universe directly below each path, in listing order
Below ==
    [p \in AllPaths |->
        SelectSeq(PathSeq, LAMBDA q : Len(q) = Len(p) + 1 /\ IsPrefix(p, q))]

\* os.scandir / os.listdir: the entries directly in directory p
listdir(f, p) == {q \in {Below[p][k] : k \in 1..Len(Below[p])} : exists(f, q)}

----------------------------------------------------------------------------
(* Library calls the script makes, by what they do to the filesystem.  A   *)
(* call returns [fs, err]: the filesystem it leaves and the name of the    *)
(* exception it raises ("" when it returns normally).  denied is the set   *)
(* of paths at which the operating system refuses a creation or a write    *)
(* during the call (permission denied, disk full, device error).           *)

Ok(f) == [fs |-> f, err |-> ""]
Raise(f, e) == [fs |-> f, err |-> e]

\* K of the value of r: what a call returns is worked out once and handed on
Then(r, K(_)) == CHOOSE x \in {K(v) : v \in {r}} : TRUE

\* os.mkdir(name)
mkdir(f, name, denied) ==
    IF exists(f, name) THEN Raise(f, "FileExistsError")
    ELSE IF Len(name) > 1 /\ ~exists(f, dirname(name)) THEN Raise(f, "FileNotFoundError")
    ELSE IF Len(name) > 1 /\ ~isdir(f, dirname(name)) THEN Raise(f, "NotADirectoryError")
    ELSE IF name \in denied THEN Raise(f, "PermissionError")
    ELSE Ok([f EXCEPT ![name] = DirNode])

\* a directory made afresh: what it held before is removed
makedirs_fresh(f, name, exist_ok, denied) ==
    IF isfile(f, name) THEN Raise(f, "FileExistsError")
    ELSE Ok([p \in AllPaths |->
               IF p = name THEN DirNode
               ELSE IF IsPrefix(name, p) THEN NoNode
               ELSE f[p]])

\* os.makedirs(name, exist_ok=exist_ok)
RECURSIVE makedirs(_, _, _, _)
makedirs(f, name, exist_ok, denied) ==
    LET head == dirname(name)
        \* mkdir(name), with the exist_ok clause
        last(g) == Then(mkdir(g, name, denied), LAMBDA made :
                     IF made.err = "FileExistsError" /\ exist_ok /\ isdir(g, name)
                     THEN Ok(g)
                     ELSE made)
    IN  IF Len(head) > 0 /\ ~exists(f, head)
        THEN Then(makedirs(f, head, exist_ok, denied), LAMBDA up :
               IF up.err \notin {"", "FileExistsError"} THEN up ELSE last(up.fs))
        ELSE last(f)

\* a move in the place of the copy: the source is gone afterwards
copyfile_move(f, src, dst, denied) ==
    IF ~isfile(f, src) \/ isdir(f, dst) \/ dst \in denied THEN Raise(f, "OSError")
    ELSE Ok([f EXCEPT ![dst] = FileNode(f[src].data), ![src] = NoNode])

\* shutil.copyfile(src, dst): open(src, 'rb'), then open(dst, 'wb') and write
copyfile(f, src, dst, denied) ==
    IF ~exists(f, src) THEN Raise(f, "FileNotFoundError")
    ELSE IF isdir(f, src) THEN Raise(f, "IsADirectoryError")
    ELSE IF isdir(f, dst) THEN Raise(f, "IsADirectoryError")
    ELSE IF Len(dst) > 1 /\ ~exists(f, dirname(dst)) THEN Raise(f, "FileNotFoundError")
    ELSE IF Len(dst) > 1 /\ ~isdir(f, dirname(dst)) THEN Raise(f, "NotADirectoryError")
    ELSE IF dst \in denied THEN Raise(f, "PermissionError")
    ELSE Ok([f EXCEPT ![dst] = FileNode(f[src].data)])

\* a copy that leaves a file already at the destination as it is
copy2_keep(f, src, dst, denied) ==
    LET target == IF isdir(f, dst) THEN join(dst, <<basename(src)>>) ELSE dst
    IN  IF isfile(f, target) THEN Ok(f) ELSE copyfile(f, src, target, denied)

\* shutil.copy2(src, dst): a dst that is a directory means "into dst"
copy2(f, src, dst, denied) ==
    LET target == IF isdir(f, dst) THEN join(dst, <<basename(src)>>) ELSE dst
    IN  copyfile(f, src, target, denied)

\* shutil.copytree(src, dst, dirs_exist_ok=True).  A failing entry is noted
\* and the remaining entries are still copied; shutil.Error is raised at the
\* end when anything was noted.
RECURSIVE copytree(_, _, _, _)
RECURSIVE copyentries(_, _, _, _, _)
\* the loop over the entries of src, here over those among the first k
\* paths of the universe below src
copyentries(f, k, src, dst, denied) ==
    IF k = 0 THEN Ok(f)
    ELSE IF ~exists(f, Below[src][k]) THEN copyentries(f, k - 1, src, dst, denied)
    ELSE Then(IF isdir(f, Below[src][k])
              THEN copytree(f, Below[src][k], join(dst, <<basename(Below[src][k])>>), denied)
              ELSE copy2(f, Below[src][k], join(dst, <<basename(Below[src][k])>>), denied),
              LAMBDA one :
                Then(copyentries(one.fs, k - 1, src, dst, denied), LAMBDA rest :
                  IF one.err # "" THEN Raise(rest.fs, "Error") ELSE rest))

copytree(f, src, dst, denied) ==
    IF ~exists(f, src) THEN Raise(f, "FileNotFoundError")
    ELSE IF ~isdir(f, src) THEN Raise(f, "NotADirectoryError")
    ELSE Then(makedirs(f, dst, TRUE, denied), LAMBDA made :
           IF made.err # "" THEN made
           ELSE copyentries(made.fs, Len(Below[src]), src, dst, denied))

\* open(path, "a"): the data is added to what the file holds
write_file_append(f, path, data, denied) ==
    IF isdir(f, path) THEN Raise(f, "IsADirectoryError")
    ELSE IF ~isdir(f, dirname(path)) THEN Raise(f, "NotADirectoryError")
    ELSE IF isfile(f, path)
         THEN Ok([f EXCEPT ![path] = FileNode([src |-> data.src,
                                               id |-> f[path].data.id + 1000000])])
         ELSE Ok([f EXCEPT ![path] = FileNode(data)])

\* open(path, "w") followed by a write of data
write_file(f, path, data, denied) ==
    IF isdir(f, path) THEN Raise(f, "IsADirectoryError")
    ELSE IF ~exists(f, dirname(path)) THEN Raise(f, "FileNotFoundError")
    ELSE IF ~isdir(f, dirname(path)) THEN Raise(f, "NotADirectoryError")
    ELSE IF path \in denied THEN Raise(f, "PermissionError")
    ELSE Ok([f EXCEPT ![path] = FileNode(data)])

\* a sum over the files directly in top only
RECURSIVE sum_files(_, _, _)
sum_files(f, top, k) ==
    IF k = 0 THEN 0
    ELSE (IF isfile(f, Below[top][k]) THEN getsize(f[Below[top][k]]) ELSE 0)
           + sum_files(f, top, k - 1)
walk_size_top(f, top) == IF isdir(f, top) THEN sum_files(f, top, Len(Below[top])) ELSE 0

\* os.walk(top) with the sum of os.path.getsize over every filename met:
\* directories are descended into, every other entry is a filename.
\* sum_entries(f, top, k) is the sum over the entries of top among the
\* first k paths of the universe below top.
RECURSIVE walk_size(_, _)
RECURSIVE sum_entries(_, _, _)
sum_entries(f, top, k) ==
    IF k = 0 THEN 0
    ELSE (IF ~exists(f, Below[top][k]) THEN 0
          ELSE IF isdir(f, Below[top][k]) THEN walk_size(f, Below[top][k])
          ELSE getsize(f[Below[top][k]]))
           + sum_entries(f, top, k - 1)

walk_size(f, top) == IF isdir(f, top) THEN sum_entries(f, top, Len(Below[top])) ELSE 0

\* f"{total_size / (1024*1024):.1f}", as a number of tenths of a mebibyte:
\* the quotient is exact in binary floating point and the format rounds it
\* half to even
format_mb(total) ==
    LET q == (total * 10) \div 1048576
        r == (total * 10) % 1048576
    IN  IF 2 * r > 1048576 THEN q + 1
        ELSE IF 2 * r = 1048576 THEN q + (q % 2)
        ELSE q

----------------------------------------------------------------------------
(* The filesystems a first run may find *)

\* what a source entry holds is told by where it is; an older file below
\* OutputRoot holds OldBlob
OldBlob == 1
SrcBlob(rel) ==
    CASE rel = <<"package.json">> -> 2
      [] rel = <<"users_data.csv">> -> 3
      [] rel = <<"server", "a">> -> 4
      [] rel = <<"server", "a", "a">> -> 5
      [] rel = <<"client", "src", "a">> -> 6
      [] OTHER -> 7

\* the relative paths that may hold a directory before the first run; below
\* OutputRoot a directory at the place of a copied file takes the copy one
\* level down, which the path universe must hold
SrcDirRel == {<<"package.json">>, <<"server">>, <<"server", "a">>, <<"shared">>,
              <<"client">>, <<"client", "src">>, <<"uploads">>}
OutDirRel == {<<"package.json">>, <<"server">>, <<"server", "a">>,
              <<"client">>, <<"client", "src">>, <<README_NAME>>}
\* the relative paths that may hold a regular file before the first run
SrcFileRel == {<<"package.json">>, <<"users_data.csv">>, <<"server">>,
               <<"server", "a">>, <<"server", "a", "a">>,
               <<"client", "src", "a">>}
OutFileRel == {<<"package.json">>, <<"users_data.csv">>,
               <<"server", "a">>, <<"server", "a", "a">>,
               <<"client", "src", "a">>, <<SUMMARY_NAME>>, <<"notes.txt">>}

SrcNodes(rel) ==
    (IF rel \in SrcDirRel THEN {DirNode} ELSE {})
      \cup (IF rel \in SrcFileRel THEN {FileNode(Blob(SrcBlob(rel)))} ELSE {})
OutNodes(rel) ==
    (IF rel \in OutDirRel THEN {DirNode} ELSE {})
      \cup (IF rel \in OutFileRel THEN {FileNode(Blob(OldBlob))} ELSE {})

\* the sets of at most n paths of rel
RECURSIVE Shapes(_, _)
Shapes(rel, n) ==
    IF n = 0 THEN {{}}
    ELSE {S \cup {p} : S \in Shapes(rel, n - 1), p \in rel}

\* every entry has its parent directory
Closed(S) == \A p \in S : Len(p) > 1 => dirname(p) \in S

\* the trees of at most n entries: an entry with entries below it is a
\* directory, any other is one of the nodes its place allows
TreesUpTo(rel, n, SrcSide) ==
    UNION { {t \in [S -> {DirNode} \cup {FileNode(Blob(b)) : b \in 1..Len(BlobSizes)}] :
               \A p \in S :
                  /\ t[p] \in (IF SrcSide THEN SrcNodes(p) ELSE OutNodes(p))
                  /\ (\E q \in S : q # p /\ IsPrefix(p, q)) => t[p] = DirNode} :
            S \in {X \in Shapes(rel, n) : Closed(X)} }

SrcTrees(n) == TreesUpTo(SrcDirRel \cup SrcFileRel, n, TRUE)
OutTrees(n) == TreesUpTo(OutDirRel \cup OutFileRel, n, FALSE)

\* the filesystem with root node r at root and tree t below it
Mount(root, r, t, p) ==
    IF p = root THEN r
    ELSE LET rel == SubSeq(p, Len(root) + 1, Len(p))
         IN  IF rel \in DOMAIN t THEN t[rel] ELSE NoNode

EmptyTree == [p \in {} |-> NoNode]

\* SourceRoot and OutputRoot are each a directory, missing, or a regular
\* file; as directories they hold at most ns and no entries
InitialFs(ns, no) ==
    { [p \in AllPaths |->
          IF IsPrefix(backup_dir, p) THEN Mount(backup_dir, s[1], s[2], p)
          ELSE Mount(output_dir, o[1], o[2], p)] :
      s \in ({DirNode} \X SrcTrees(ns))
              \cup ({NoNode, FileNode(Blob(OldBlob))} \X {EmptyTree}),
      o \in ({DirNode} \X OutTrees(no))
              \cup ({NoNode, FileNode(Blob(OldBlob))} \X {EmptyTree}) }

\* the script is started for the first time on filesystem f
FirstRun(f) ==
    /\ fs = f
    /\ pc = "Start"
    /\ i = 1
    /\ j = 1
    /\ stdout = <<>>
    /\ total_size = -1
    /\ result = <<>>
    /\ err = ""
    /\ run = 1
    /\ fs0 = f
    /\ fs1 = f

Init == \E f \in InitialFs(MaxSrcNodes, MaxOutNodes) : FirstRun(f)

\* the first runs followed to their end under fairness
FairInit == \E f \in InitialFs(FairSrcNodes, FairOutNodes) : FirstRun(f)

----------------------------------------------------------------------------
(* The script, statement by statement *)

\* a printed line: what it says, the name it is about, the number in it
Line(tag, text, n) == <<tag, text, n>>

\* the operating system refuses nothing, or refuses one of the paths
Faults(targets) == {{}} \cup {{p} : p \in targets}

\* an exception handler that removes OutputRoot before the run ends
Abort_cleanup(r) ==
    /\ fs' = [p \in AllPaths |-> IF IsPrefix(output_dir, p) THEN NoNode ELSE r.fs[p]]
    /\ err' = r.err
    /\ UNCHANGED <<pc, i, j, stdout, total_size, result, run, fs0, fs1>>

\* an exception nothing catches ends the run at the statement that raised
\* it: pc stays there and no statement runs any more
Abort(r) ==
    /\ fs' = r.fs
    /\ err' = r.err
    /\ UNCHANGED <<pc, i, j, stdout, total_size, result, run, fs0, fs1>>

\* line 13
Start ==
    /\ pc = "Start"
    /\ err = ""
    /\ pc' = "EnsureDir"
    /\ stdout' = Append(stdout, Line("banner", "Creating downloadable backup files...", 0))
    /\ UNCHANGED <<fs, i, j, total_size, result, err, run, fs0, fs1>>

\* lines 19 and 33
EnsureDir ==
    /\ pc = "EnsureDir"
    /\ err = ""
    /\ \E denied \in Faults({output_dir}) :
         \E r \in {makedirs(fs, output_dir, TRUE, denied)} :
             IF r.err # "" THEN Abort(r)
             ELSE /\ fs' = r.fs
                  /\ pc' = "CopyFiles"
                  /\ i' = 1
                  /\ stdout' = Append(stdout, Line("banner", "Copying essential files...", 0))
                  /\ UNCHANGED <<j, total_size, result, err, run, fs0, fs1>>

\* a loop that stops one entry short of the list's end
AfterFile_short(k) ==
    IF k < Len(essential_files) - 1
    THEN [pc |-> "CopyFiles", i |-> k + 1, lines |-> <<>>]
    ELSE [pc |-> "CopyDirs", i |-> k + 1,
          lines |-> <<Line("banner", "Copying important directories...", 0)>>]

\* the loop's exit at line 34, with line 43 after it
AfterFile(k) ==
    IF k < Len(essential_files)
    THEN [pc |-> "CopyFiles", i |-> k + 1, lines |-> <<>>]
    ELSE [pc |-> "CopyDirs", i |-> k + 1,
          lines |-> <<Line("banner", "Copying important directories...", 0)>>]

\* one turn of the loop of lines 34-38
CopyFile ==
    /\ pc = "CopyFiles"
    /\ err = ""
    /\ i <= Len(essential_files)
    /\ LET file == essential_files[i]
           src == join(backup_dir, <<file>>)
           nxt == AfterFile(i)
       IN  IF ~exists(fs, src)
           THEN /\ pc' = nxt.pc
                /\ i' = nxt.i
                /\ j' = 1
                /\ stdout' = stdout \o nxt.lines
                /\ UNCHANGED <<fs, total_size, result, err, run, fs0, fs1>>
           ELSE \E denied \in Faults({join(output_dir, <<file>>)}) :
                  \E r \in {copy2(fs, src, output_dir, denied)} :
                      IF r.err # "" THEN Abort(r)
                      ELSE /\ fs' = r.fs
                           /\ pc' = nxt.pc
                           /\ i' = nxt.i
                           /\ j' = 1
                           /\ stdout' = Append(stdout, Line("copied", file, 0)) \o nxt.lines
                           /\ UNCHANGED <<total_size, result, err, run, fs0, fs1>>

\* a loop's exit that passes over the two writes
AfterDir_skip(k) ==
    IF k < Len(dirs_to_copy)
    THEN [pc |-> "CopyDirs", j |-> k + 1]
    ELSE [pc |-> "Report", j |-> k + 1]

\* the loop's exit at line 44
AfterDir(k) ==
    IF k < Len(dirs_to_copy)
    THEN [pc |-> "CopyDirs", j |-> k + 1]
    ELSE [pc |-> "WriteSummary", j |-> k + 1]

\* the name printed for a directory: its components joined by "/"
DirName(d) == IF Len(d) = 1 THEN d[1] ELSE "client/src"

\* the copy of a directory without the test that it exists
CopyDir_unchecked ==
    /\ pc = "CopyDirs"
    /\ err = ""
    /\ j <= Len(dirs_to_copy)
    /\ LET dir_name == dirs_to_copy[j]
           nxt == AfterDir(j)
       IN  \E r \in {copytree(fs, join(backup_dir, dir_name), join(output_dir, dir_name), {})} :
           IF r.err # "" THEN Abort(r)
           ELSE /\ fs' = r.fs
                /\ pc' = nxt.pc
                /\ j' = nxt.j
                /\ stdout' = Append(stdout, Line("copied", DirName(dir_name), 0))
                /\ UNCHANGED <<i, total_size, result, err, run, fs0, fs1>>

\* one turn of the loop of lines 44-49
CopyDir ==
    /\ pc = "CopyDirs"
    /\ err = ""
    /\ j <= Len(dirs_to_copy)
    /\ LET dir_name == dirs_to_copy[j]
           src_dir == join(backup_dir, dir_name)
           dest_dir == join(output_dir, dir_name)
           nxt == AfterDir(j)
       IN  IF ~exists(fs, src_dir)
           THEN /\ pc' = nxt.pc
                /\ j' = nxt.j
                /\ UNCHANGED <<fs, i, stdout, total_size, result, err, run, fs0, fs1>>
           ELSE \E denied \in Faults({p \in OutPaths :
                                        /\ p # output_dir
                                        /\ IsPrefix(dest_dir, p) \/ IsPrefix(p, dest_dir)}) :
                  \E r \in {copytree(fs, src_dir, dest_dir, denied)} :
                      IF r.err # "" THEN Abort(r)
                      ELSE /\ fs' = r.fs
                           /\ pc' = nxt.pc
                           /\ j' = nxt.j
                           /\ stdout' = Append(stdout, Line("copied", DirName(dir_name), 0))
                           /\ UNCHANGED <<i, total_size, result, err, run, fs0, fs1>>

\* lines 52-69
WriteSummary ==
    /\ pc = "WriteSummary"
    /\ err = ""
    /\ \E now \in Clock :
       \E denied \in Faults({join(output_dir, <<SUMMARY_NAME>>)}) :
         \E r \in {write_file(fs, join(output_dir, <<SUMMARY_NAME>>), summary(now), denied)} :
             IF r.err # "" THEN Abort(r)
             ELSE /\ fs' = r.fs
                  /\ pc' = "WriteInstructions"
                  /\ UNCHANGED <<i, j, stdout, total_size, result, err, run, fs0, fs1>>

\* lines 72-100
WriteInstructions ==
    /\ pc = "WriteInstructions"
    /\ err = ""
    /\ \E denied \in Faults({join(output_dir, <<README_NAME>>)}) :
         \E r \in {write_file(fs, join(output_dir, <<README_NAME>>), instructions, denied)} :
             IF r.err # "" THEN Abort(r)
             ELSE /\ fs' = r.fs
                  /\ pc' = "Report"
                  /\ UNCHANGED <<i, j, stdout, total_size, result, err, run, fs0, fs1>>

\* len(os.listdir(output_dir)) of line 112
count_entries(f, dir) == Cardinality(listdir(f, dir))

\* lines 103-114
Report ==
    /\ pc = "Report"
    /\ err = ""
    /\ \E total \in {walk_size(fs, output_dir)} :
           /\ total_size' = total
           /\ stdout' = stdout \o
                 << Line("banner", "Downloadable backup created!", 0),
                    Line("location", output_dir[1], 0),
                    Line("size", "MB", format_mb(total)),
                    Line("files", "", count_entries(fs, output_dir)) >>
    /\ result' = output_dir
    /\ pc' = "End"
    /\ fs1' = IF run = 1 THEN fs ELSE fs1
    /\ UNCHANGED <<fs, i, j, err, run, fs0>>

\* lines 116-117, once more: the script is started again after it returned
Rerun ==
    /\ pc = "End"
    /\ err = ""
    /\ run < MaxRuns
    /\ run' = run + 1
    /\ pc' = "Start"
    /\ i' = 1
    /\ j' = 1
    /\ stdout' = <<>>
    /\ total_size' = -1
    /\ result' = <<>>
    /\ fs0' = fs
    /\ UNCHANGED <<fs, err, fs1>>

Step ==
    \/ Start
    \/ EnsureDir
    \/ CopyFile
    \/ CopyDir
    \/ WriteSummary
    \/ WriteInstructions
    \/ Report

Next == Step \/ Rerun

Spec == Init /\ [][Next]_vars

\* the interpreter runs a started script to its end or to an exception
FairSpec == FairInit /\ [][Next]_vars /\ WF_vars(Step)

----------------------------------------------------------------------------
(* Properties *)

SrcOf(name) == join(backup_dir, <<name>>)
OutOf(name) == join(output_dir, <<name>>)
SummaryPath == join(output_dir, <<SUMMARY_NAME>>)
ReadmePath == join(output_dir, <<README_NAME>>)

\* the run returned
Returned == pc = "End" /\ err = ""

\* C1: when a run has returned, every essential file that was a regular file
\* directly under SourceRoot when the run started is a regular file with the
\* same content at OutputRoot/<name>.
C1_EssentialFilesCopied ==
    Returned =>
        \A name \in EssentialNames :
            isfile(fs0, SrcOf(name)) =>
                /\ isfile(fs, OutOf(name))
                /\ fs[OutOf(name)].data = fs0[SrcOf(name)].data

\* a run returned after copying an essential file over an older file of the
\* same name and another to a place that was empty
C1_Witness ==
    /\ Returned
    /\ \E name \in EssentialNames :
         /\ isfile(fs0, SrcOf(name))
         /\ isfile(fs0, OutOf(name))
         /\ fs0[OutOf(name)].data # fs0[SrcOf(name)].data
    /\ \E name \in EssentialNames :
         /\ isfile(fs0, SrcOf(name))
         /\ ~exists(fs0, OutOf(name))

\* C2 as claimed: when a run has returned, no essential file that was absent
\* from SourceRoot when the run started exists at OutputRoot/<name>, whatever
\* OutputRoot held before the run.
C2_AbsentNeverInOutput ==
    Returned =>
        \A name \in EssentialNames :
            ~exists(fs0, SrcOf(name)) => ~exists(fs, OutOf(name))

\* C2 as amended: a run never creates, changes or removes OutputRoot/<name>
\* for an essential file absent from SourceRoot when the run started; what
\* was there before the run is there, unchanged, in every state of the run.
C2_AbsentLeftAlone ==
    \A name \in EssentialNames :
        ~exists(fs0, SrcOf(name)) => fs[OutOf(name)] = fs0[OutOf(name)]

\* a run returned with a file at OutputRoot/<name> that SourceRoot does not
\* hold, while it copied another essential file
C2_Witness ==
    /\ Returned
    /\ isdir(fs0, backup_dir)
    /\ \E name \in EssentialNames :
         ~exists(fs0, SrcOf(name)) /\ isfile(fs, OutOf(name))
    /\ \E name \in EssentialNames :
         isfile(fs0, SrcOf(name)) /\ fs[OutOf(name)] # fs0[OutOf(name)]

\* C10: in every state of a run, returned or aborted, every path of
\* SourceRoot (SourceRoot itself included) holds what it held when the run
\* started, and so does every path outside OutputRoot.
C10_SourceReadOnly ==
    \A p \in AllPaths :
        ~IsPrefix(output_dir, p) => fs[p] = fs0[p]

\* a run that copied an essential file out of SourceRoot and then aborted
\* in the copy of a directory
C10_Witness ==
    /\ err # ""
    /\ pc = "CopyDirs"
    /\ \E name \in EssentialNames :
         isfile(fs0, SrcOf(name)) /\ fs[OutOf(name)] # fs0[OutOf(name)]

\* the files of the tree at top, as paths relative to top
FilesBelow(f, top) ==
    {SubSeq(p, Len(top) + 1, Len(p)) : p \in {q \in AllPaths : Under(top, q) /\ isfile(f, q)}}
\* the entries of the tree at top, as paths relative to top
EntriesBelow(f, top) ==
    {SubSeq(p, Len(top) + 1, Len(p)) : p \in {q \in AllPaths : Under(top, q) /\ exists(f, q)}}

DirsToCopy == {dirs_to_copy[k] : k \in 1..Len(dirs_to_copy)}

\* the tree of directory d was mirrored: every file of the source tree is at
\* the same relative path below OutputRoot/d with the same content
Mirrored(d) ==
    \A rel \in FilesBelow(fs0, join(backup_dir, d)) :
        /\ isfile(fs, join(join(output_dir, d), rel))
        /\ fs[join(join(output_dir, d), rel)].data = fs0[join(join(backup_dir, d), rel)].data

\* every file that was below OutputRoot/d at a path the source tree does not
\* hold is still there with the content it had
Preserved(d) ==
    \A rel \in FilesBelow(fs0, join(output_dir, d)) :
        rel \notin EntriesBelow(fs0, join(backup_dir, d)) =>
            fs[join(join(output_dir, d), rel)] = fs0[join(join(output_dir, d), rel)]

\* C3: when a run has returned, every essential directory that was a
\* directory under SourceRoot when the run started is mirrored below
\* OutputRoot, and the files that were only at the destination are preserved.
C3_DirectoriesMirrored ==
    Returned =>
        \A d \in DirsToCopy :
            isdir(fs0, join(backup_dir, d)) => Mirrored(d) /\ Preserved(d)

\* the part of C3 that the code keeps: a returned run removes no entry of
\* OutputRoot, and mirrors every source file whose place below OutputRoot
\* did not hold a directory when the run started
C3_MirroredUnlessDirectoryInPlace ==
    Returned =>
        /\ \A p \in OutPaths : exists(fs0, p) => exists(fs, p)
        /\ \A d \in DirsToCopy :
             isdir(fs0, join(backup_dir, d)) =>
               \A rel \in FilesBelow(fs0, join(backup_dir, d)) :
                 ~isdir(fs0, join(join(output_dir, d), rel)) =>
                   /\ isfile(fs, join(join(output_dir, d), rel))
                   /\ fs[join(join(output_dir, d), rel)].data
                        = fs0[join(join(backup_dir, d), rel)].data

\* a run returned after copying a tree with a file in a subdirectory over an
\* older file, leaving a file of the destination alone
C3_Witness ==
    /\ Returned
    /\ \E d \in DirsToCopy :
         /\ isdir(fs0, join(backup_dir, d))
         /\ \E rel \in FilesBelow(fs0, join(backup_dir, d)) :
              /\ Len(rel) > 1
              /\ fs[join(join(output_dir, d), rel)] # fs0[join(join(output_dir, d), rel)]

\* C4: when a second (or later) run has returned, every path of OutputRoot
\* holds what it held when the first run returned, except that
\* BACKUP_SUMMARY.json, still the summary, may hold another backup_date.
C4_Idempotent ==
    (Returned /\ run > 1) =>
        /\ \A p \in OutPaths \ {SummaryPath} : fs[p] = fs1[p]
        /\ fs[SummaryPath].kind = fs1[SummaryPath].kind
        /\ fs[SummaryPath].data.src = fs1[SummaryPath].data.src

\* a second run returned, with another backup_date, over an OutputRoot that
\* holds a copied essential file and a copied directory tree
C4_Witness ==
    /\ Returned
    /\ run = 2
    /\ fs[SummaryPath] # fs1[SummaryPath]
    /\ \E name \in EssentialNames : isfile(fs0, SrcOf(name)) /\ isfile(fs, OutOf(name))
    /\ \E d \in DirsToCopy : FilesBelow(fs0, join(backup_dir, d)) # {}

\* the lines of the current run that report a copy
CopyLines == {k \in 1..Len(stdout) : stdout[k][1] = "copied"}

\* C5: in a run started with SourceRoot missing, no copy step raises (the run
\* can only end early in the creation of OutputRoot or the write of an
\* artifact), no copy line is printed, nothing but OutputRoot and the two
\* artifacts is created or changed, and once both writes are done OutputRoot
\* is a directory that holds the summary and the instructions.
C5_MissingSourceTolerated ==
    ~exists(fs0, backup_dir) =>
        /\ err # "" => pc \in {"EnsureDir", "WriteSummary", "WriteInstructions"}
        /\ CopyLines = {}
        /\ \A p \in AllPaths \ {output_dir, SummaryPath, ReadmePath} : fs[p] = fs0[p]
        /\ pc \in {"Report", "End"} =>
             /\ isdir(fs, output_dir)
             /\ isfile(fs, SummaryPath)
             /\ fs[SummaryPath].data.src = "summary"
             /\ fs[ReadmePath] = FileNode(instructions)

\* a first run returned with neither SourceRoot nor OutputRoot there when it
\* started
C5_Witness ==
    /\ Returned
    /\ run = 1
    /\ ~exists(fs0, backup_dir)
    /\ ~exists(fs0, output_dir)
    /\ isdir(fs, output_dir)

\* the essential names SourceRoot held when the run started
PresentFiles == {name \in EssentialNames : exists(fs0, SrcOf(name))}
NoEssentialDirs == \A d \in DirsToCopy : ~exists(fs0, join(backup_dir, d))
ExpectedEntries == {OutOf(name) : name \in PresentFiles} \cup {SummaryPath, ReadmePath}

\* OutputRoot holds exactly the present essential files, as copies, and the
\* two artifacts, and the last line reports that many entries
ExactOutput ==
    /\ listdir(fs, output_dir) = ExpectedEntries
    /\ \A name \in PresentFiles : fs[OutOf(name)] = fs0[SrcOf(name)]
    /\ isfile(fs, SummaryPath) /\ isfile(fs, ReadmePath)
    /\ stdout[Len(stdout)] = Line("files", "", Cardinality(PresentFiles) + 2)

\* C6 as claimed: when a run has returned whose SourceRoot held some of the
\* essential files and none of the essential directories, OutputRoot holds
\* exactly those files and the two artifacts and the reported entry count is
\* their number plus 2.
C6_ExactOutput ==
    (Returned /\ NoEssentialDirs) => ExactOutput

\* C6 as amended: the same, for a run that found in OutputRoot no entry
\* other than those files and the two artifacts (OutputRoot missing or
\* empty included).
C6_ExactOutputOfCleanStart ==
    (Returned /\ NoEssentialDirs /\ listdir(fs0, output_dir) \subseteq ExpectedEntries)
        => ExactOutput

\* a first run returned that found two essential files, no essential
\* directory and no OutputRoot, and reported 4 entries
C6_Witness ==
    /\ Returned
    /\ run = 1
    /\ NoEssentialDirs
    /\ Cardinality(PresentFiles) = 2
    /\ ~exists(fs0, output_dir)
    /\ stdout[Len(stdout)][3] = 4

\* the regular files anywhere below OutputRoot
OutputFiles == {p \in AllPaths : Under(output_dir, p) /\ isfile(fs, p)}

RECURSIVE SumOfSizes(_)
SumOfSizes(S) ==
    IF S = {} THEN 0
    ELSE LET p == CHOOSE q \in S : TRUE
         IN  getsize(fs[p]) + SumOfSizes(S \ {p})

\* C7: when a run has returned, total_size is the sum of the sizes of all
\* regular files anywhere below OutputRoot, whoever put them there, and the
\* printed size is that sum in mebibytes to the nearest tenth.
C7_TotalSize ==
    Returned =>
        /\ total_size = SumOfSizes(OutputFiles)
        /\ LET tenths == stdout[Len(stdout) - 1][3]
               diff == 10 * SumOfSizes(OutputFiles) - tenths * 1048576
           IN  /\ stdout[Len(stdout) - 1][1] = "size"
               /\ 2 * diff <= 1048576
               /\ 2 * diff >= -1048576

\* a run returned whose OutputRoot holds a file it did not write, a copied
\* file in a subdirectory and both artifacts, and printed more than 0.0MB
C7_Witness ==
    /\ Returned
    /\ \E p \in OutputFiles :
         /\ p \notin {SummaryPath, ReadmePath}
         /\ fs[p].data.id = OldBlob
    /\ \E p \in OutputFiles : Len(p) > 2 /\ fs[p] # fs0[p]
    /\ stdout[Len(stdout) - 1][3] > 0

\* the loop over essential_files is past its k-th entry
FileDone(k) == (pc = "CopyFiles" /\ k < i) \/ pc \notin {"Start", "EnsureDir", "CopyFiles"}

\* no artifact is written and no result is reported by a run that ended in
\* the creation of OutputRoot or in a copy, and the essential files copied
\* before a run ended are where the copy put them
C8_Inv ==
    /\ (err # "" /\ pc \in {"EnsureDir", "CopyFiles", "CopyDirs"}) =>
          /\ fs[SummaryPath] = fs0[SummaryPath]
          /\ fs[ReadmePath] = fs0[ReadmePath]
    /\ err # "" =>
          /\ result = <<>>
          /\ total_size = -1
          /\ \A k \in 1..Len(stdout) : stdout[k][1] \in {"banner", "copied"}
          /\ \A k \in 1..Len(essential_files) :
                (FileDone(k) /\ isfile(fs0, SrcOf(essential_files[k]))) =>
                    fs[OutOf(essential_files[k])] = fs0[SrcOf(essential_files[k])]

\* a missing entry is passed over and the loop goes on; an exception ends the
\* run where it is raised, removes nothing, and nothing happens after it
C8_Step ==
    /\ (err = "" /\ pc = "CopyFiles" /\ ~exists(fs, SrcOf(essential_files[i]))) =>
          /\ err' = ""
          /\ fs' = fs
          /\ i' = i + 1
          /\ pc' = IF i < Len(essential_files) THEN "CopyFiles" ELSE "CopyDirs"
    /\ (err = "" /\ pc = "CopyDirs" /\ ~exists(fs, join(backup_dir, dirs_to_copy[j]))) =>
          /\ err' = ""
          /\ fs' = fs
          /\ j' = j + 1
          /\ pc' = IF j < Len(dirs_to_copy) THEN "CopyDirs" ELSE "WriteSummary"
    /\ (err = "" /\ err' # "") =>
          /\ pc \in {"EnsureDir", "CopyFiles", "CopyDirs", "WriteSummary", "WriteInstructions"}
          /\ UNCHANGED <<pc, i, j, stdout, total_size, result, run>>
          /\ \A p \in AllPaths : exists(fs, p) => exists(fs', p)
          /\ \A p \in AllPaths : isfile(fs, p) /\ isfile(fs', p) /\ fs'[p] # fs[p] =>
                \E q \in SrcPaths : fs'[p] = fs[q]
    /\ err # "" => UNCHANGED vars

\* C8: a missing essential file or directory never ends the run, and the
\* entries and steps after it are still processed; an exception of os.makedirs,
\* of a copy or of an artifact write ends the run at that step, no later step
\* runs, and what OutputRoot holds by then stays.
C8_TwoTierErrors == []C8_Inv /\ [][C8_Step]_vars

\* a run ended by shutil.Error in the copy of a directory, which left part
\* of the tree below OutputRoot, after its loop over the essential files
\* passed over the missing ones
C8_Witness ==
    /\ err = "Error"
    /\ pc = "CopyDirs"
    /\ \E p \in OutPaths : Len(p) > 2 /\ fs[p] # fs0[p]
    /\ \E name \in EssentialNames : ~exists(fs0, SrcOf(name))

\* the place of a copied name in essential_files followed by dirs_to_copy
CopyIndex(name) ==
    IF name \in EssentialNames
    THEN CHOOSE k \in 1..Len(essential_files) : essential_files[k] = name
    ELSE Len(essential_files)
           + (CHOOSE k \in 1..Len(dirs_to_copy) : DirName(dirs_to_copy[k]) = name)

\* the copies are reported in list order, the result is the path of
\* OutputRoot, and the size is measured once both artifacts are written
C9_Inv ==
    /\ \A a, b \in CopyLines : a < b => CopyIndex(stdout[a][2]) < CopyIndex(stdout[b][2])
    /\ pc = "CopyFiles" => \A a \in CopyLines : CopyIndex(stdout[a][2]) < i
    /\ pc = "CopyDirs" => \A a \in CopyLines : CopyIndex(stdout[a][2]) < Len(essential_files) + j
    /\ Returned <=> result = output_dir
    /\ total_size # -1 => Returned
    /\ pc \in {"Report", "End"} =>
          /\ fs[SummaryPath].data.src = "summary"
          /\ fs[ReadmePath] = FileNode(instructions)

\* a step is the next step of the sequence, the next turn of a loop, the
\* end of the run by an exception, or the start of another run
C9_Step ==
    \/ err = "" /\ err' # "" /\ pc' = pc
    \/ /\ err' = ""
       /\ \/ pc = "Start" /\ pc' = "EnsureDir"
          \/ pc = "EnsureDir" /\ pc' = "CopyFiles" /\ i' = 1
          \/ pc = "CopyFiles" /\ i < Len(essential_files) /\ pc' = "CopyFiles" /\ i' = i + 1
          \/ pc = "CopyFiles" /\ i = Len(essential_files) /\ pc' = "CopyDirs" /\ j' = 1
          \/ pc = "CopyDirs" /\ j < Len(dirs_to_copy) /\ pc' = "CopyDirs" /\ j' = j + 1
          \/ pc = "CopyDirs" /\ j = Len(dirs_to_copy) /\ pc' = "WriteSummary"
          \/ pc = "WriteSummary" /\ pc' = "WriteInstructions"
          \/ pc = "WriteInstructions" /\ pc' = "Report"
          \/ pc = "Report" /\ pc' = "End"
          \/ pc = "End" /\ pc' = "Start" /\ run' = run + 1

\* C9: every run goes through EnsureDir, CopyFiles, CopyDirs, WriteSummary,
\* WriteInstructions and Report in this order, each once, with the list
\* entries in list order; a started run reaches End, where it has returned
\* the path of OutputRoot, unless an exception ends it; the size and the
\* entry count are measured after both artifacts are written.
C9_LinearOrder ==
    /\ []C9_Inv
    /\ [][C9_Step]_vars
    /\ (pc = "Start") ~> (Returned \/ err # "")

\* a second run returned after copying an essential file and a directory
C9_Witness ==
    /\ Returned
    /\ run = 2
    /\ \E a \in CopyLines : stdout[a][2] \in EssentialNames
    /\ \E a \in CopyLines : stdout[a][2] \notin EssentialNames

====
